---- MODULE Spec2Model ----
(***************************************************************************)
(* dat-patch-rust: incremental, calendar-aware backup of a directory tree. *)
(* One run of main (src/src/main.rs) is modelled as a state machine whose  *)
(* steps are the calls main makes: determine_backup_months,                *)
(* read_cache_records / get_last_backup_time, find_files_to_backup and     *)
(* create_archive per month, cleanup_old_backups, write_cache_records.     *)
(*                                                                         *)
(* Time is counted in ticks since 1970-01-01T00:00:00Z (TicksPerDay ticks  *)
(* a day).  An instant (DateTime<Utc>) is a tick number; a naive local     *)
(* date-time is a tick number too, and the local zone is a fixed offset    *)
(* tz: local = utc + tz.  (Zones with daylight-saving transitions, where   *)
(* a local time can be ambiguous or missing, are outside this model.)      *)
(***************************************************************************)
EXTENDS Integers, Sequences, FiniteSets, TLC

----------------------------------------------------------------------------
(* Bounds of the model *)

\* clock resolution: ticks per day
TicksPerDay == 2
\* the year every date sweep is centred on (a leap year)
BaseYear == 2024
\* the environment injects at most this many I/O errors in all
MaxFaults == 1
\* a create_archive call, and the pause between two runs, take at most this
\* many ticks of wall-clock time
MaxLag == 1
\* the number of runs of main in a row, in the specification of repeated runs
MaxRuns == 2

----------------------------------------------------------------------------
(* Calendar arithmetic (chrono::NaiveDate), proleptic Gregorian *)

IsLeap(y) == (y % 4 = 0 /\ y % 100 # 0) \/ y % 400 = 0

DaysInMonth(y, m) ==
    IF m = 2 THEN (IF IsLeap(y) THEN 29 ELSE 28)
    ELSE IF m \in {4, 6, 9, 11} THEN 30 ELSE 31

\* NaiveDate::from_ymd_opt(y, m, d): the day number of a civil date,
\* counted from 1970-01-01 = 0
from_ymd(y, m, d) ==
    LET yy  == IF m <= 2 THEN y - 1 ELSE y
        era == yy \div 400
        yoe == yy - era * 400
        mp  == IF m > 2 THEN m - 3 ELSE m + 9
        doy == (153 * mp + 2) \div 5 + d - 1
        doe == yoe * 365 + yoe \div 4 - yoe \div 100 + doy
    IN  era * 146097 + doe - 719468

\* the civil date <<year, month, day>> of a day number
\* (Datelike::year / month / day of a NaiveDate)
civil(day) ==
    LET z   == day + 719468
        era == z \div 146097
        doe == z - era * 146097
        yoe == (doe - doe \div 1460 + doe \div 36524 - doe \div 146096) \div 365
        doy == doe - (365 * yoe + yoe \div 4 - yoe \div 100)
        mp  == (5 * doy + 2) \div 153
        d   == doy - (153 * mp + 2) \div 5 + 1
        m   == IF mp < 10 THEN mp + 3 ELSE mp - 9
        y   == yoe + era * 400
    IN  << IF m <= 2 THEN y + 1 ELSE y, m, d >>

\* Local::now(): the naive local date-time of an instant
to_local(utc, zone) == utc + zone

\* Local.from_local_datetime(naive).with_timezone(&Utc)
from_local(naive, zone) == naive - zone

\* date_naive(): the day number of a naive date-time
date_naive(naive) == naive \div TicksPerDay

\* and_hms_opt(0, 0, 0): midnight of a day, as a naive date-time
midnight(day) == day * TicksPerDay

Days(n) == n * TicksPerDay

----------------------------------------------------------------------------
(* backup_logic.rs *)

BackupModes == {"PreviousMonth", "CurrentMonth", "Dynamic"}

\* BackupMonth {year, month}
BackupMonth(y, m) == [year |-> y, month |-> m]

\* #[derive(PartialOrd, Ord)]: year major, month minor
MonthLess(a, b) == a.year < b.year \/ (a.year = b.year /\ a.month < b.month)

\* Vec::sort of a list of at most two months
SortMonths(s) ==
    IF Len(s) = 2 /\ MonthLess(s[2], s[1]) THEN << s[2], s[1] >> ELSE s

\* today - last_day_of_previous_month <= DynamicWindow selects both months
DynamicWindow == 7

\* a Dynamic window that leaves out its last day
InDynamicWindow_strict(days_diff) == days_diff >= 0 /\ days_diff < DynamicWindow

\* the comparison of Dynamic mode, backup_logic.rs line 58
InDynamicWindow(days_diff) == days_diff >= 0 /\ days_diff <= DynamicWindow

\* a previous month computed without the roll-over into the year before
PreviousOf_same_year(today) ==
    LET c == civil(today) IN BackupMonth(c[1], c[2] - 1)

\* the month of last_day_of_previous_month
PreviousOf(today) ==
    LET c == civil(today)
        first_day_of_current_month == from_ymd(c[1], c[2], 1)
        last_day_of_previous_month == first_day_of_current_month - 1
        p == civil(last_day_of_previous_month)
    IN  BackupMonth(p[1], p[2])

\* determine_backup_months(mode), with today = Local::now().date_naive()
determine_backup_months(m, today) ==
    LET c == civil(today)
        current_month == BackupMonth(c[1], c[2])
        first_day_of_current_month == from_ymd(c[1], c[2], 1)
        last_day_of_previous_month == first_day_of_current_month - 1
        previous_month == PreviousOf(today)
        days_diff == today - last_day_of_previous_month
        result ==
            CASE m = "PreviousMonth" -> << previous_month >>
              [] m = "CurrentMonth"  -> << current_month >>
              [] m = "Dynamic" ->
                    IF InDynamicWindow(days_diff)
                    THEN << previous_month, current_month >>
                    ELSE << current_month >>
    IN  SortMonths(result)

----------------------------------------------------------------------------
(* file_scanner.rs *)

\* get_month_range_utc(month): midnight local time of the 1st of the month and
\* of the 1st of the following month, converted to UTC
get_month_range_utc(month, zone) ==
    LET start_naive == midnight(from_ymd(month.year, month.month, 1))
        end_naive ==
            IF month.month = 12
            THEN midnight(from_ymd(month.year + 1, 1, 1))
            ELSE midnight(from_ymd(month.year, month.month + 1, 1))
    IN  [start |-> from_local(start_naive, zone),
         end   |-> from_local(end_naive, zone)]

\* a filter whose month window is closed at its end
Selected_closed_end(modified_time, last_backup_time, range) ==
    /\ modified_time > last_backup_time
    /\ modified_time >= range.start
    /\ modified_time <= range.end

\* a filter that forgets the last backup time
Selected_no_cutoff(modified_time, last_backup_time, range) ==
    /\ modified_time >= range.start
    /\ modified_time < range.end

\* the filter of find_files_to_backup, file_scanner.rs lines 56-58
Selected(modified_time, last_backup_time, range) ==
    /\ modified_time > last_backup_time
    /\ modified_time >= range.start
    /\ modified_time < range.end

\* a is a proper prefix of b: directory a is an ancestor of path b
IsAncestor(a, b) == Len(a) < Len(b) /\ SubSeq(b, 1, Len(a)) = a

\* the directories of a tree given by the paths of its non-directory entries:
\* the root <<>> and every intermediate directory
DirsOf(paths) == UNION { { SubSeq(p, 1, n) : n \in 0..(Len(p) - 1) } : p \in paths }

\* WalkDir::new(root).into_iter().filter_map(|e| e.ok()): the entries the
\* walk yields when reading the directories in badDirs fails; the error items
\* are dropped and nothing below such a directory is visited
Walk(entries, badDirs) ==
    { e \in entries : \A d \in badDirs : ~IsAncestor(d, e.path) }

\* find_files_to_backup(source_path, last_backup_time, month_to_scan) on a
\* tree whose directories badDirs cannot be read and whose files badMeta
\* fail entry.metadata() / metadata.modified()
find_files_to_backup(tree, last_backup_time, month_to_scan, zone, badDirs, badMeta) ==
    LET range   == get_month_range_utc(month_to_scan, zone)
        regular == { e \in Walk(tree, badDirs) : e.kind = "file" }
    IN  IF \E e \in regular : e.path \in badMeta
        THEN [ok |-> FALSE, files |-> {}]
        ELSE [ok |-> TRUE,
              files |-> { e.path : e \in
                          { x \in regular :
                              Selected(x.mtime, last_backup_time, range) } }]

----------------------------------------------------------------------------
(* cache.rs *)

\* Utc.with_ymd_and_hms(1970, 1, 1, 0, 0, 0)
Sentinel == midnight(from_ymd(1970, 1, 1))

\* an RFC 3339 timestamp of the cache file is a naive date-time with a UTC
\* offset, <<naive, offset>>; deserialising it gives the instant
parse_rfc3339(ts) == ts[1] - ts[2]

\* serialising a DateTime<Utc> writes the instant with offset zero
to_rfc3339(t) == << t, 0 >>

\* serde: one JSON object {StartTime, EndTime, BackupInfo} <-> CacheRecord
Deserialize(o) ==
    [start_time  |-> parse_rfc3339(o.StartTime),
     end_time    |-> parse_rfc3339(o.EndTime),
     backup_info |-> o.BackupInfo]

Serialize(r) ==
    [StartTime  |-> to_rfc3339(r.start_time),
     EndTime    |-> to_rfc3339(r.end_time),
     BackupInfo |-> r.backup_info]

\* serde_json::from_str::<Vec<CacheRecord>> of a JSON array
DeserializeAll(content) == [i \in 1..Len(content) |-> Deserialize(content[i])]

\* serde_json::to_string_pretty of a slice of records
SerializeAll(records) == [i \in 1..Len(records) |-> Serialize(records[i])]

\* the cache file: absent, or present with blank, malformed or JSON content
NoFile      == [state |-> "missing",   content |-> << >>]
BlankFile   == [state |-> "blank",     content |-> << >>]
BrokenFile  == [state |-> "malformed", content |-> << >>]
JsonFile(c) == [state |-> "json",      content |-> c]

\* a read_cache_records that takes malformed content for an empty list
read_cache_records_lenient(file, readFails) ==
    CASE file.state = "missing"   -> [ok |-> TRUE,  records |-> << >>]
      [] readFails                -> [ok |-> FALSE, records |-> << >>]
      [] file.state = "blank"     -> [ok |-> TRUE,  records |-> << >>]
      [] file.state = "malformed" -> [ok |-> TRUE,  records |-> << >>]
      [] OTHER -> [ok |-> TRUE, records |-> DeserializeAll(file.content)]

\* read_cache_records(cache_path); readFails: fs::read_to_string fails
read_cache_records(file, readFails) ==
    CASE file.state = "missing"   -> [ok |-> TRUE,  records |-> << >>]
      [] readFails                -> [ok |-> FALSE, records |-> << >>]
      [] file.state = "blank"     -> [ok |-> TRUE,  records |-> << >>]
      [] file.state = "malformed" -> [ok |-> FALSE, records |-> << >>]
      [] OTHER -> [ok |-> TRUE, records |-> DeserializeAll(file.content)]

\* a get_last_backup_time that takes the last record instead of the latest
get_last_backup_time_last(records) ==
    IF records = << >> THEN Sentinel ELSE records[Len(records)].end_time

\* get_last_backup_time(records)
get_last_backup_time(records) ==
    IF records = << >> THEN Sentinel
    ELSE LET ends == { records[i].end_time : i \in 1..Len(records) }
         IN  CHOOSE t \in ends : \A u \in ends : u <= t

\* a write_cache_records that writes the newest record alone
write_cache_records_newest(file, records, outcome) ==
    IF outcome = "ok" /\ records # << >>
    THEN JsonFile(<< Serialize(records[Len(records)]) >>)
    ELSE file

\* write_cache_records(cache_path, records): fs::write creates or truncates
\* the file, then writes the whole serialisation.  outcome "ok": written;
\* "open": the file could not be opened and is as before; "torn": the write
\* failed after the truncation and the file holds a prefix of the JSON text
write_cache_records(file, records, outcome) ==
    CASE outcome = "ok"   -> JsonFile(SerializeAll(records))
      [] outcome = "open" -> file
      [] OTHER            -> BrokenFile

----------------------------------------------------------------------------
(* Names of the entries of the destination directory *)

\* the 14 digits YYYYMMDDHHMMSS of an archive name are <<year, month, day,
\* hour>>; minutes and seconds are zero at the clock's resolution
HoursPerTick == 24 \div TicksPerDay

\* chrono::Local::now().format("%Y%m%d%H%M%S") of a naive local date-time
format_stamp(naive) ==
    LET c == civil(date_naive(naive))
    IN  << c[1], c[2], c[3], (naive % TicksPerDay) * HoursPerTick >>

\* NaiveDateTime::parse_from_str(ts_str, "%Y%m%d%H%M%S") succeeds
stamp_parses(ts) ==
    /\ ts[2] \in 1..12
    /\ ts[3] >= 1 /\ ts[3] <= DaysInMonth(ts[1], ts[2])
    /\ ts[4] \in 0..23

\* the naive date-time NaiveDateTime::parse_from_str gives
parse_stamp(ts) == midnight(from_ymd(ts[1], ts[2], ts[3])) + ts[4] \div HoursPerTick

\* format!("{:04}-{:02}_backup_{}.zip", month.year, month.month, time_stamp)
ArchiveName(year, month, ts) ==
    [fmt |-> "archive", y |-> year, m |-> month, ts |-> ts, id |-> ""]

\* a name that is not of the form NNNN-NN_backup_<14 digits>.zip
OtherName(id) ==
    [fmt |-> "other", y |-> 0, m |-> 0, ts |-> << 0, 0, 0, 0 >>, id |-> id]

\* Uuid::new_v4().to_string(): the n-th identifier drawn
UuidName(n) ==
    [fmt |-> "uuid", y |-> n, m |-> 0, ts |-> << 0, 0, 0, 0 >>, id |-> ""]

\* Regex ^\d{4}-\d{2}_backup_(\d{14})\.zip$ matches the name
re_captures(name) == name.fmt = "archive"

\* an entry of the destination directory; entries / complete describe the
\* content of a zip file this program wrote
DestEntry(name, kind) ==
    [name |-> name, kind |-> kind, entries |-> {}, complete |-> FALSE]

ZipFile(name, entries, complete) ==
    [name |-> name, kind |-> "file", entries |-> entries, complete |-> complete]

----------------------------------------------------------------------------
(* archiver.rs *)

ArchiveOutcomes == {"ok", "mkdir", "copy", "create", "zip", "rmdir"}

\* a copy loop that drops the directories and keeps the file names alone
StagingTree_flat(files) ==
    { [path |-> << p[Len(p)] >>, kind |-> "file"] : p \in files }

\* the staging tree after the copy loop: one file per path of files_to_backup
\* (relative to the source root) and the directories leading to them
StagingTree(files) ==
    { [path |-> p, kind |-> "file"] : p \in files }
    \cup { [path |-> d, kind |-> "dir"] : d \in DirsOf(files) }

\* the zip loop, archiver.rs lines 53-68: every entry the walk of the staging
\* tree yields becomes an archive entry, a file by start_file and a directory
\* by add_directory unless its name is empty (the staging root)
ZipEntries(files, badDirs) ==
    { e \in Walk(StagingTree(files), badDirs) : e.path # << >> }

\* create_archive(base_source_path, files_to_backup, destination_path, month)
\* called at local time stamp with the n-th uuid.  outcome names the call
\* that fails ("ok": none): create_dir_all of the staging directory, a copy,
\* File::create of the zip, a zip write, or remove_dir_all.  The result is
\* the Ok/Err returned and the destination directory afterwards.
create_archive(dest, files, month, stamp, n, outcome, badDirs) ==
    LET staging  == DestEntry(UuidName(n), "dir")
        zip_name == ArchiveName(month.year, month.month, format_stamp(stamp))
        others   == { e \in dest : e.name # zip_name }
        whole    == ZipFile(zip_name, ZipEntries(files, badDirs), TRUE)
        partial  == ZipFile(zip_name, {}, FALSE)
    IN  CASE outcome = "mkdir"  -> [ok |-> FALSE, dest |-> dest]
          [] outcome = "copy"   -> [ok |-> FALSE, dest |-> dest \cup {staging}]
          [] outcome = "create" -> [ok |-> FALSE, dest |-> dest \cup {staging}]
          [] outcome = "zip"    -> [ok |-> FALSE,
                                    dest |-> others \cup {staging, partial}]
          [] outcome = "rmdir"  -> [ok |-> FALSE,
                                    dest |-> others \cup {staging, whole}]
          [] OTHER              -> [ok |-> TRUE, dest |-> others \cup {whole}]

----------------------------------------------------------------------------
(* cleaner.rs *)

\* a 30-day month, cleaner.rs line 23
DaysPerKeptMonth == 30

\* Local::now() - Duration::days(30 * keep_months)
Deadline(t, keep) == t - Days(DaysPerKeptMonth * keep)

\* a cleanup that also removes the archive written exactly at the deadline
cleanup_candidates_at_deadline(dest, t, keep, zone) ==
    { e \in dest :
        /\ e.kind = "file"
        /\ re_captures(e.name)
        /\ stamp_parses(e.name.ts)
        /\ from_local(parse_stamp(e.name.ts), zone) <= Deadline(t, keep) }

\* the entries cleanup_old_backups calls fs::remove_file on
cleanup_candidates(dest, t, keep, zone) ==
    { e \in dest :
        /\ e.kind = "file"
        /\ re_captures(e.name)
        /\ stamp_parses(e.name.ts)
        /\ from_local(parse_stamp(e.name.ts), zone) < Deadline(t, keep) }

\* cleanup_old_backups(destination_path, keep_months, silent) at instant t:
\* the destination directory afterwards.  kept are the candidates that stay
\* because fs::remove_file failed or the directory listing stopped with an
\* error before reaching them
cleanup_old_backups(dest, t, keep, zone, kept) ==
    IF keep = 0 THEN dest
    ELSE dest \ (cleanup_candidates(dest, t, keep, zone) \ kept)

----------------------------------------------------------------------------
(* main.rs: the state of one run *)

VARIABLES
    pc,                 \* the position of main: "precheck", "months", "cache",
                        \* "scan", "archive", "prune", "update", "done"
    exit_code,          \* the process's exit status; -1 while it runs
    now,                \* the system clock, a UTC instant
    tz,                 \* the UTC offset of the local time zone
    mode,               \* -p / -n / -d, "None" when no flag was given
    keep_months,        \* --keep-months
    from_exists,        \* args.from.exists()
    to_exists,          \* args.to.exists()
    source,             \* the tree under --from: entries [path, kind, mtime]
    dest,               \* the top-level entries of --to
    cache_file,         \* <to>/.cache/backupEvents.json
    faults,             \* I/O errors the environment may still inject
    uuids,              \* identifiers Uuid::new_v4 has drawn
    script_start_time,
    months_to_backup,
    cache_records,
    last_backup_time,
    idx,                \* the position of the month loop in months_to_backup
    files,              \* the file list of the month being archived
    archives_created_this_run,
    \* the history of the run
    records_read,       \* what read_cache_records returned
    scans,              \* one record per find_files_to_backup call
    archives,           \* one record per create_archive call
    prunes,             \* one record per pass of the pruning step
    cache_writes,       \* the outcome of each write_cache_records call
    cache_at_start,     \* the cache file as the run found it
    earlier             \* the histories of the runs that ended before this one

env  == << tz, mode, keep_months, from_exists, source >>
loop == << months_to_backup, cache_records, last_backup_time, idx, files,
           archives_created_this_run >>
hist == << records_read, scans, archives, prunes, cache_writes, cache_at_start >>
vars == << pc, exit_code, now, to_exists, dest, cache_file, faults, uuids,
           script_start_time, env, loop, hist, earlier >>

Modes == BackupModes \cup {"None"}

SubsetsUpTo(S, k) == { x \in SUBSET S : Cardinality(x) <= k }

FilePaths(tree) == { e.path : e \in tree }

CacheDir == DestEntry(OtherName(".cache"), "dir")

\* the state main starts in, given the command line and the file system
Start(t, zone, md, keep, fe, te, src, dst, cf, fl) ==
    /\ pc = "precheck"
    /\ exit_code = -1
    /\ now = t
    /\ tz = zone
    /\ mode = md
    /\ keep_months = keep
    /\ from_exists = fe
    /\ to_exists = te
    /\ source = src
    /\ dest = dst
    /\ cache_file = cf
    /\ faults = fl
    /\ uuids = 0
    /\ script_start_time = t
    /\ months_to_backup = << >>
    /\ cache_records = << >>
    /\ last_backup_time = Sentinel
    /\ idx = 1
    /\ files = {}
    /\ archives_created_this_run = FALSE
    /\ records_read = << >>
    /\ scans = << >>
    /\ archives = << >>
    /\ prunes = << >>
    /\ cache_writes = << >>
    /\ cache_at_start = cf
    /\ earlier = << >>

\* process::exit(code) or return from main
Exit(code) ==
    /\ pc' = "done"
    /\ exit_code' = code

\* main.rs lines 52-85: the source must exist, the destination is created
\* when missing, one mode flag must be given
Precheck ==
    /\ pc = "precheck"
    /\ \E mkdir_fails \in {FALSE} \cup { f \in {TRUE} : faults > 0 /\ ~to_exists } :
        /\ IF ~from_exists
           THEN Exit(1) /\ UNCHANGED << to_exists, faults >>
           ELSE IF ~to_exists /\ mkdir_fails
           THEN Exit(1) /\ faults' = faults - 1 /\ UNCHANGED to_exists
           ELSE /\ to_exists' = TRUE
                /\ UNCHANGED faults
                /\ IF mode = "None"
                   THEN Exit(1)
                   ELSE pc' = "months" /\ UNCHANGED exit_code
    /\ UNCHANGED << earlier, now, dest, cache_file, uuids, script_start_time,
                    env, loop, hist >>

\* main.rs lines 88-95
Months ==
    /\ pc = "months"
    /\ months_to_backup' = determine_backup_months(mode, date_naive(to_local(now, tz)))
    /\ IF months_to_backup' = << >>
       THEN Exit(0)
       ELSE pc' = "cache" /\ UNCHANGED exit_code
    /\ UNCHANGED << earlier, now, to_exists, dest, cache_file, faults, uuids,
                    script_start_time, env, cache_records, last_backup_time,
                    idx, files, archives_created_this_run, hist >>

\* main.rs lines 98-116: create <to>/.cache when missing, read the cache
\* file, take the last backup time
ReadCache ==
    /\ pc = "cache"
    /\ \E io \in {"ok"}
              \cup { f \in {"mkdir"} : faults > 0 /\ CacheDir \notin dest }
              \cup { f \in {"read"} : faults > 0 /\ cache_file.state # "missing" } :
        LET r == read_cache_records(cache_file, io = "read")
        IN  /\ faults' = IF io = "ok" THEN faults ELSE faults - 1
            /\ IF io = "mkdir"
               THEN /\ Exit(1)
                    /\ UNCHANGED << dest, cache_records, last_backup_time, records_read >>
               ELSE /\ dest' = dest \cup {CacheDir}
                    /\ IF r.ok
                       THEN /\ cache_records' = r.records
                            /\ last_backup_time' = get_last_backup_time(r.records)
                            /\ records_read' = r.records
                            /\ pc' = "scan"
                            /\ UNCHANGED exit_code
                       ELSE /\ Exit(1)
                            /\ UNCHANGED << cache_records, last_backup_time, records_read >>
    /\ UNCHANGED << earlier, now, to_exists, cache_file, uuids,
                    script_start_time, env,
                    months_to_backup, idx, files, archives_created_this_run,
                    scans, archives, prunes, cache_writes, cache_at_start >>

\* a month loop that stops at the first month
AfterMonth_break(i) == "prune"

\* where the month loop goes after the month at position i
AfterMonth(i) == IF i + 1 > Len(months_to_backup) THEN "prune" ELSE "scan"

\* main.rs lines 134-160 and 179-187: scan the source for the month at idx.
\* A failed scan and an empty list both go on to the next month.
ScanMonth ==
    /\ pc = "scan"
    /\ idx <= Len(months_to_backup)
    /\ \E badDirs \in SubsetsUpTo(DirsOf(FilePaths(source)), faults) :
       \E badMeta \in SubsetsUpTo(FilePaths(source), faults - Cardinality(badDirs)) :
        LET month == months_to_backup[idx]
            r == find_files_to_backup(source, last_backup_time, month, tz,
                                      badDirs, badMeta)
        IN  /\ faults' = faults - Cardinality(badDirs) - Cardinality(badMeta)
            /\ scans' = Append(scans, [month |-> month, cutoff |-> last_backup_time,
                                       ok |-> r.ok, files |-> r.files,
                                       badDirs |-> badDirs, badMeta |-> badMeta])
            /\ IF r.ok /\ r.files # {}
               THEN /\ files' = r.files
                    /\ pc' = "archive"
                    /\ UNCHANGED idx
               ELSE /\ files' = {}
                    /\ idx' = idx + 1
                    /\ pc' = AfterMonth(idx)
    /\ UNCHANGED << earlier, exit_code, now, to_exists, dest, cache_file, uuids,
                    script_start_time, env, months_to_backup, cache_records,
                    last_backup_time, archives_created_this_run,
                    records_read, archives, prunes, cache_writes, cache_at_start >>

\* what a create_archive call costs the environment's error budget
ArchiveCost(outcome, badDirs) ==
    (IF outcome = "ok" THEN 0 ELSE 1) + Cardinality(badDirs)

\* main.rs lines 161-176: archive the files found for the month at idx
ArchiveMonth ==
    /\ pc = "archive"
    /\ \E outcome \in ArchiveOutcomes :
       \E badDirs \in SubsetsUpTo(DirsOf(files), faults) :
       \E lag \in 0..MaxLag :
        LET month == months_to_backup[idx]
            zipped == outcome \in {"ok", "zip", "rmdir"}
            r == create_archive(dest, files, month, to_local(now + lag, tz),
                                uuids + 1, outcome,
                                IF zipped THEN badDirs ELSE {})
        IN  /\ ArchiveCost(outcome, badDirs) <= faults
            /\ ~zipped => badDirs = {}
            /\ faults' = faults - ArchiveCost(outcome, badDirs)
            /\ now' = now + lag
            /\ uuids' = uuids + 1
            /\ dest' = r.dest
            /\ archives_created_this_run' = (archives_created_this_run \/ r.ok)
            /\ archives' = Append(archives,
                   [month |-> month, files |-> files, ok |-> r.ok,
                    outcome |-> outcome, badDirs |-> badDirs,
                    uuid |-> uuids + 1,
                    name |-> ArchiveName(month.year, month.month,
                                         format_stamp(to_local(now + lag, tz)))])
    /\ files' = {}
    /\ idx' = idx + 1
    /\ pc' = AfterMonth(idx)
    /\ UNCHANGED << earlier, exit_code, to_exists, cache_file,
                    script_start_time, env,
                    months_to_backup, cache_records, last_backup_time,
                    records_read, scans, prunes, cache_writes, cache_at_start >>

\* main.rs lines 191-197: prune old archives unless --keep-months is 0
Prune ==
    /\ pc = "prune"
    /\ \E kept \in SubsetsUpTo(
                     IF keep_months > 0
                     THEN cleanup_candidates(dest, now, keep_months, tz)
                     ELSE {}, faults) :
        /\ dest' = IF keep_months > 0
                   THEN cleanup_old_backups(dest, now, keep_months, tz, kept)
                   ELSE dest
        /\ faults' = faults - Cardinality(kept)
        /\ prunes' = Append(prunes, [before |-> dest, kept |-> kept, at |-> now])
    /\ pc' = "update"
    /\ UNCHANGED << earlier, exit_code, now, to_exists, cache_file, uuids,
                    script_start_time, env, loop,
                    records_read, scans, archives, cache_writes, cache_at_start >>

\* CacheRecord {start_time, end_time, backup_info}; backup_info, the text
\* "Backup for YYYY-MM, YYYY-MM", is the list of the months
new_record(start, end, months) ==
    [start_time |-> start, end_time |-> end, backup_info |-> months]

\* main.rs lines 200-241: when an archive was created, append a record for
\* this run and rewrite the cache file; main returns either way
UpdateCache ==
    /\ pc = "update"
    /\ IF ~archives_created_this_run
       THEN UNCHANGED << cache_file, cache_records, cache_writes, faults >>
       ELSE \E outcome \in {"ok"} \cup { f \in {"open", "torn"} : faults > 0 } :
              /\ cache_records' = Append(cache_records,
                     new_record(script_start_time, now, months_to_backup))
              /\ cache_file' = write_cache_records(cache_file, cache_records', outcome)
              /\ cache_writes' = Append(cache_writes, outcome)
              /\ faults' = IF outcome = "ok" THEN faults ELSE faults - 1
    /\ Exit(0)
    /\ UNCHANGED << earlier, now, to_exists, dest, uuids, script_start_time, env,
                    months_to_backup, last_backup_time, idx, files,
                    archives_created_this_run, records_read, scans, archives,
                    prunes, cache_at_start >>

Next ==
    \/ Precheck
    \/ Months
    \/ ReadCache
    \/ ScanMonth
    \/ ArchiveMonth
    \/ Prune
    \/ UpdateCache

\* what a run that has ended leaves to the histories of the earlier runs
RunHistory ==
    [months |-> months_to_backup, scans |-> scans, archives |-> archives,
     cache_writes |-> cache_writes, ended |-> now]

\* main.rs lines 48-50: the program is started again, with the same command
\* line, on the file system the run before has left; the source tree is as
\* it was.  wait: the time between the end of a run and the next start
Rerun ==
    /\ pc = "done"
    /\ exit_code = 0
    /\ Len(earlier) + 1 < MaxRuns
    /\ earlier' = Append(earlier, RunHistory)
    /\ \E wait \in 0..MaxLag :
        /\ now' = now + wait
        /\ script_start_time' = now + wait
    /\ pc' = "precheck"
    /\ exit_code' = -1
    /\ months_to_backup' = << >>
    /\ cache_records' = << >>
    /\ last_backup_time' = Sentinel
    /\ idx' = 1
    /\ files' = {}
    /\ archives_created_this_run' = FALSE
    /\ records_read' = << >>
    /\ scans' = << >>
    /\ archives' = << >>
    /\ prunes' = << >>
    /\ cache_writes' = << >>
    /\ cache_at_start' = cache_file
    /\ UNCHANGED << to_exists, dest, cache_file, faults, uuids, env >>

\* runs of main one after the other
NextRerun ==
    \/ Next
    \/ Rerun

----------------------------------------------------------------------------
(* The runs checked: command lines and file systems main may start from *)

\* the UTC offsets of the local zone, in ticks
TzOffsets == {-1, 0, 1}

\* the instant k ticks after midnight UTC of a civil date
At(y, m, d, k) == midnight(from_ymd(y, m, d)) + k

File(path, mtime)    == [path |-> path, kind |-> "file", mtime |-> mtime]
Symlink(path, mtime) == [path |-> path, kind |-> "symlink", mtime |-> mtime]

\* a stored cache record whose timestamps carry the UTC offset off
Stored(start, end, off, info) ==
    [StartTime |-> << start + off, off >>, EndTime |-> << end + off, off >>,
     BackupInfo |-> info]

\* an archive file left by an earlier run at local time naive
OldArchive(naive) ==
    LET c == civil(date_naive(naive))
    IN  ZipFile(ArchiveName(c[1], c[2], format_stamp(naive)), {}, TRUE)

\* A run in the first days of January of BaseYear: Dynamic mode selects
\* December and January.  The source holds a file of each month, an older
\* file and a symbolic link.
RunNow == At(BaseYear, 1, 3, 1)

RunSource ==
    { File(<< "a" >>, At(BaseYear - 1, 12, 20, 0)),
      File(<< "d", "b" >>, At(BaseYear, 1, 2, 0)),
      File(<< "d", "e", "c" >>, At(BaseYear - 1, 11, 5, 0)),
      Symlink(<< "l" >>, At(BaseYear, 1, 2, 0)) }

RunCaches ==
    { NoFile, BlankFile, BrokenFile,
      JsonFile(<< Stored(At(BaseYear - 1, 12, 24, 0), At(BaseYear - 1, 12, 25, 0),
                         1, << >>) >>),
      JsonFile(<< Stored(At(BaseYear - 1, 12, 9, 0), At(BaseYear - 1, 12, 10, 0),
                         0, << >>),
                  Stored(At(BaseYear - 1, 12, 4, 0), At(BaseYear - 1, 12, 5, 0),
                         -1, << >>) >>) }

RunDest ==
    { CacheDir,
      OldArchive(At(BaseYear - 1, 11, 1, 0)),
      OldArchive(At(BaseYear - 1, 12, 28, 1)),
      DestEntry(OtherName("notes.txt"), "file") }

Init ==
    \E zone \in TzOffsets, md \in Modes, keep \in 0..1, fe \in BOOLEAN,
       fl \in 0..MaxFaults :
        \/ \E cf \in RunCaches :
             Start(RunNow, zone, md, keep, fe, TRUE, RunSource,
                   IF cf = NoFile THEN RunDest \ {CacheDir} ELSE RunDest, cf, fl)
        \/ Start(RunNow, zone, md, keep, fe, FALSE, RunSource, {}, NoFile, fl)

Spec == Init /\ [][Next]_vars

\* the same runs, each followed by further runs up to MaxRuns in all
SpecRerun == Init /\ [][NextRerun]_vars

\* Scans at the edges of the month windows: a run at RunNow whose source holds
\* a file and a nested file modified at, just before or just after local
\* midnight of 1 December, 1 January and 1 February, with a cache whose last
\* record ends at one of these instants or with no cache.
Edges(zone) ==
    { from_local(midnight(from_ymd(BaseYear - 1, 12, 1)), zone),
      from_local(midnight(from_ymd(BaseYear, 1, 1)), zone),
      from_local(midnight(from_ymd(BaseYear, 2, 1)), zone) }

NearEdges(zone) == { t + k : t \in Edges(zone), k \in {-1, 0, 1} }

ScanSource(ta, tb) ==
    { File(<< "a" >>, ta), File(<< "d", "b" >>, tb),
      Symlink(<< "l" >>, At(BaseYear, 1, 2, 0)) }

ScanCaches(zone) ==
    {NoFile} \cup
    { JsonFile(<< Stored(t - Days(1), t, zone, << >>) >>) :
        t \in Edges(zone) \ {from_local(midnight(from_ymd(BaseYear, 2, 1)), zone)} }

InitScan ==
    \E zone \in TzOffsets, md \in {"CurrentMonth", "Dynamic"}, fl \in 0..MaxFaults :
    \E ta \in NearEdges(zone), tb \in Edges(zone), cf \in ScanCaches(zone) :
        Start(RunNow, zone, md, 1, TRUE, TRUE, ScanSource(ta, tb),
              IF cf = NoFile THEN RunDest \ {CacheDir} ELSE RunDest, cf, fl)

SpecScan == InitScan /\ [][Next]_vars

\* Archives of every non-empty set of files out of four, at the top of the
\* source tree and one and two directories down, all modified in January.
ArchivePaths == { << "a" >>, << "d", "b" >>, << "d", "e", "c" >>, << "d", "e", "f" >> }

InitArchive ==
    \E zone \in TzOffsets, fl \in 0..MaxFaults, keep \in 0..1 :
    \E paths \in SUBSET ArchivePaths \ {{}} :
        Start(RunNow, zone, "CurrentMonth", keep, TRUE, TRUE,
              { File(q, At(BaseYear, 1, 2, 0)) : q \in paths },
              RunDest \ {CacheDir}, NoFile, fl)

SpecArchive == InitArchive /\ [][Next]_vars

\* Pruning of every destination directory made of: archives written one tick
\* before, exactly at and one tick after the instant 30 days ago, an archive
\* written one tick before the instant 60 days ago, a file whose name has the
\* archive form but whose 14 digits are no date, a directory named like an
\* old archive, a file of another name, and the .cache directory.
PruneUniverse(zone) ==
    LET d1 == to_local(Deadline(RunNow, 1), zone)
        d2 == to_local(Deadline(RunNow, 2), zone)
        old == format_stamp(d2 - Days(1))
    IN  { OldArchive(d1 - 1), OldArchive(d1), OldArchive(d1 + 1),
          OldArchive(d2 - 1),
          ZipFile(ArchiveName(old[1], 13, << old[1], 13, 1, 0 >>), {}, TRUE),
          DestEntry(ArchiveName(old[1], old[2], old), "dir"),
          DestEntry(OtherName("notes.txt"), "file") }

InitPrune ==
    \E zone \in TzOffsets, fl \in 0..MaxFaults, keep \in 0..2 :
    \E dst \in SUBSET PruneUniverse(zone) :
        Start(RunNow, zone, "CurrentMonth", keep, TRUE, TRUE, RunSource,
              dst \cup {CacheDir}, BlankFile, fl)

SpecPrune == InitPrune /\ [][Next]_vars

\* The end-to-end scenario of tests/full_run.rs, started at every tick of
\* every day from December before BaseYear to January after it, in every
\* zone and mode: a file modified 10 days ago and one modified 30 days ago,
\* a cache whose only record ends 20 days ago, an archive written 4 * 30 days
\* ago and one written 2 * 30 days ago, --keep-months 3, no I/O errors.
SweepDays == from_ymd(BaseYear - 1, 12, 1) .. from_ymd(BaseYear + 1, 1, 31)

NewFile == << "new_file.txt" >>
OldFile == << "old_file.txt" >>

SweepSource(t) == { File(NewFile, t - Days(10)), File(OldFile, t - Days(30)) }

SweepCache(t) ==
    JsonFile(<< Stored(At(BaseYear - 1, 1, 1, 0), t - Days(20), 0, << >>) >>)

SweepDest(t, zone) ==
    { CacheDir,
      OldArchive(to_local(t, zone) - Days(4 * 30)),
      OldArchive(to_local(t, zone) - Days(2 * 30)) }

InitSweep ==
    \E day \in SweepDays, k \in 0..(TicksPerDay - 1), zone \in TzOffsets,
       md \in BackupModes :
        LET t == midnight(day) + k
        IN  Start(t, zone, md, 3, TRUE, TRUE, SweepSource(t),
                  SweepDest(t, zone), SweepCache(t), 0)

SpecSweep == InitSweep /\ [][Next]_vars

----------------------------------------------------------------------------
(* Properties of a run *)

\* the records of the cache file the run started from
StartRecords ==
    IF cache_at_start.state = "json"
    THEN DeserializeAll(cache_at_start.content)
    ELSE << >>

SomeArchiveOk == \E i \in 1..Len(archives) : archives[i].ok

ScannedMonths == [i \in 1..Len(scans) |-> scans[i].month]

\* C1: the cache file is written at most once, in the last step of main,
\* after every selected month was processed and after the pruning step; a run
\* that ends has written it if and only if a create_archive call succeeded;
\* once the write has succeeded the file holds the records the run started
\* from, in their order, followed by exactly one new record; and when no archive
\* was created the file is as the run found it.
C1_CacheWrittenOnce ==
    /\ Len(cache_writes) <= 1
    /\ cache_writes # << >> =>
          /\ pc = "done"
          /\ ScannedMonths = months_to_backup
          /\ Len(prunes) = 1
    /\ pc = "done" => (cache_writes # << >> <=> SomeArchiveOk)
    /\ cache_writes = << "ok" >> =>
          /\ cache_file.state = "json"
          /\ LET written == DeserializeAll(cache_file.content)
             IN  /\ Len(written) = Len(StartRecords) + 1
                 /\ SubSeq(written, 1, Len(StartRecords)) = StartRecords
    /\ ~SomeArchiveOk => cache_file = cache_at_start

C1_Witness ==
    /\ pc = "done"
    /\ cache_writes = << "ok" >>
    /\ Len(StartRecords) = 2
    /\ Len(archives) = 2
    /\ archives[1].ok /\ ~archives[2].ok

IsAscending(months) ==
    \A i \in 1..(Len(months) - 1) : MonthLess(months[i], months[i + 1])

\* the scans that found files: the months main hands to create_archive
ScansWithFiles == SelectSeq(scans, LAMBDA sc : sc.ok /\ sc.files # {})

\* C4: the selected months are processed one after the other in ascending
\* order, and a failed scan or a failed archive does not stop the run: once
\* the loop was entered every month of the list is scanned, every month whose
\* scan found files is archived, the pruning step is reached only after the
\* last month and is always reached, and the process exits with status 0.
C4_MonthFailuresNotFatal ==
    /\ IsAscending(months_to_backup)
    /\ \A i \in 1..Len(scans) :
          i <= Len(months_to_backup) /\ scans[i].month = months_to_backup[i]
    /\ Len(archives) <= Len(ScansWithFiles)
    /\ \A j \in 1..Len(archives) :
          /\ archives[j].month = ScansWithFiles[j].month
          /\ archives[j].files = ScansWithFiles[j].files
    /\ prunes # << >> => ScannedMonths = months_to_backup
    /\ exit_code = 1 => scans = << >>
    /\ (pc = "done" /\ exit_code = 0) =>
          /\ ScannedMonths = months_to_backup
          /\ Len(archives) = Len(ScansWithFiles)
          /\ Len(prunes) = 1

C4_Witness ==
    /\ pc = "done" /\ exit_code = 0
    /\ Len(scans) = 2
    /\ ~scans[1].ok \/ (Len(archives) = 2 /\ ~archives[1].ok)
    /\ archives # << >> /\ archives[Len(archives)].ok
    /\ archives[Len(archives)].month = months_to_backup[2]
    /\ Len(prunes) = 1

RECURSIVE MaxEnd(_)
MaxEnd(records) ==
    IF Len(records) = 1 THEN records[1].end_time
    ELSE LET rest == MaxEnd(Tail(records))
         IN  IF records[1].end_time >= rest THEN records[1].end_time ELSE rest

----------------------------------------------------------------------------
(* Properties of the month selection *)

\* today, as determine_backup_months reads it when the run starts
Today == civil(date_naive(to_local(script_start_time, tz)))

ThisMonth == BackupMonth(Today[1], Today[2])

\* the calendar month before today's
MonthBefore ==
    IF Today[2] > 1 THEN BackupMonth(Today[1], Today[2] - 1)
    ELSE BackupMonth(Today[1] - 1, 12)

MonthsChosen == pc \notin {"precheck", "months"} /\ exit_code # 1

\* C6 as claimed: in Dynamic mode the previous and the current month are
\* returned when today is 0 to 7 days after the first day of the current
\* month, and the current month alone otherwise.
C6_DynamicWithin7DaysOfFirst ==
    (MonthsChosen /\ mode = "Dynamic") =>
        months_to_backup =
            IF Today[3] - 1 \in 0..7 THEN << MonthBefore, ThisMonth >>
            ELSE << ThisMonth >>

\* C6 amended: in Dynamic mode the previous and the current month are returned,
\* in this order, when today is 0 to 6 days after the first day of the
\* current month (1 to 7 days after the last day of the previous month), and
\* the current month alone otherwise.
C6_DynamicFirstSevenDays ==
    (MonthsChosen /\ mode = "Dynamic") =>
        months_to_backup =
            IF Today[3] - 1 \in 0..6 THEN << MonthBefore, ThisMonth >>
            ELSE << ThisMonth >>

C6_Witness ==
    /\ MonthsChosen /\ mode = "Dynamic"
    /\ Today[3] = 7 /\ Today[2] = 1
    /\ months_to_backup = << BackupMonth(Today[1] - 1, 12), BackupMonth(Today[1], 1) >>

\* C7: PreviousMonth mode returns exactly the calendar month before today's,
\* December of the year before when today is in January, and CurrentMonth mode
\* returns exactly today's month.
C7_SingleMonthModes ==
    /\ (MonthsChosen /\ mode = "PreviousMonth") => months_to_backup = << MonthBefore >>
    /\ (MonthsChosen /\ mode = "CurrentMonth") => months_to_backup = << ThisMonth >>

C7_Witness ==
    /\ MonthsChosen /\ mode = "PreviousMonth"
    /\ Today[2] = 1
    /\ months_to_backup = << BackupMonth(Today[1] - 1, 12) >>

----------------------------------------------------------------------------
(* The end-to-end scenario *)

\* the scenario of tests/full_run.rs holds of this run
Scenario ==
    /\ source = SweepSource(script_start_time)
    /\ cache_at_start = SweepCache(script_start_time)
    /\ mode = "CurrentMonth"

\* what the scenario expects of a finished run: only the 10-day-old file was
\* archived, its archive is a new file of the destination named after the
\* current month, and the cache file holds one record more than before
ScenarioPassed ==
    /\ Len(archives) = 1
    /\ archives[1].ok
    /\ archives[1].files = {NewFile}
    /\ \E e \in dest :
          /\ e.name = archives[1].name
          /\ e \notin SweepDest(script_start_time, tz)
          /\ e.kind = "file"
          /\ re_captures(e.name) /\ stamp_parses(e.name.ts)
          /\ e.name.y = ThisMonth.year /\ e.name.m = ThisMonth.month
          /\ e.complete
          /\ e.entries = {[path |-> NewFile, kind |-> "file"]}
    /\ cache_file.state = "json"
    /\ Len(cache_file.content) = Len(cache_at_start.content) + 1

\* the instant 10 days before the run started lies in today's calendar month
TenDaysAgoInThisMonth ==
    LET then == civil(date_naive(to_local(script_start_time - Days(10), tz)))
    IN  then[1] = Today[1] /\ then[2] = Today[2]

----------------------------------------------------------------------------
(* Properties of the file selection *)

\* the modification time, read in local time, falls in the calendar month
InMonth(mtime, month) ==
    LET c == civil(date_naive(to_local(mtime, tz)))
    IN  c[1] = month.year /\ c[2] = month.month

\* the entries of the source the walk of a scan yields: those below no
\* directory whose reading failed
Reached(sc) == { e \in source : \A d \in sc.badDirs : ~IsAncestor(d, e.path) }

\* C3: a scan that succeeds returns a regular file of the source tree if and
\* only if the file was modified strictly after the cutoff and in the target
\* month, from local midnight of its 1st up to but not including local
\* midnight of the 1st of the following month.  (The files meant are those
\* the walk yields; C10 is about the entries it fails to read.)
C3_SelectedFiles ==
    \A i \in 1..Len(scans) :
        scans[i].ok =>
            scans[i].files =
                { e.path : e \in
                    { x \in Reached(scans[i]) :
                        /\ x.kind = "file"
                        /\ x.mtime > scans[i].cutoff
                        /\ InMonth(x.mtime, scans[i].month) } }

\* a January scan that returns the file modified exactly at the month's start
\* and leaves out a file modified exactly at the cutoff or at the month's end
C3_Witness ==
    \E i \in 1..Len(scans) :
        LET range == get_month_range_utc(scans[i].month, tz)
        IN  /\ scans[i].ok
            /\ scans[i].month.month = 1
            /\ \E e \in source :
                  e.kind = "file" /\ e.mtime = range.start /\ e.path \in scans[i].files
            /\ \E e \in source :
                  /\ e.kind = "file"
                  /\ e.mtime = range.end
                  /\ e.mtime > scans[i].cutoff
                  /\ e.path \notin scans[i].files

\* an error occurred in a scan: a directory could not be read, or the
\* metadata of a regular file the walk reached could not be read
ScanMetError(sc) ==
    \/ sc.badDirs # {}
    \/ \E e \in Reached(sc) : e.kind = "file" /\ e.path \in sc.badMeta

\* C10 as claimed: a scan in which any directory entry, the root included, or
\* any file's metadata could not be read fails; it never returns a list.
C10_ScanFailsOnAnyError ==
    \A i \in 1..Len(scans) : ScanMetError(scans[i]) => ~scans[i].ok

----------------------------------------------------------------------------
(* Properties of the archive builder *)

\* the zip file of the destination that a create_archive call wrote
ZipOf(a) == CHOOSE e \in dest : e.name = a.name

StagingGone(a) == \A e \in dest : e.name # UuidName(a.uuid)

PathsOf(entries) == { e.path : e \in entries }

\* C8 as claimed: a successful create_archive of N files leaves an archive of
\* exactly N entries, whose paths are the files' paths relative to the source
\* root, and its staging directory is gone.
C8_ExactlyNEntries ==
    \A j \in 1..Len(archives) :
        archives[j].ok =>
            /\ \E e \in dest : e.name = archives[j].name
            /\ Cardinality(ZipOf(archives[j]).entries) = Cardinality(archives[j].files)
            /\ PathsOf(ZipOf(archives[j]).entries) = archives[j].files
            /\ StagingGone(archives[j])

\* below no directory of the staging tree whose reading failed
Staged(a, path) == \A d \in a.badDirs : ~IsAncestor(d, path)

\* C8 amended: a successful create_archive of N files leaves an archive that
\* holds one file entry for each of the N files, at the file's path relative to
\* the source root, and besides these one directory entry for every directory
\* between the source root and a file (so more than N entries when a file
\* lies in a subdirectory), less the entries below a staging directory the
\* walk could not read; its staging directory is gone.
C8_FileAndDirectoryEntries ==
    \A j \in 1..Len(archives) :
        archives[j].ok =>
            /\ \E e \in dest : e.name = archives[j].name
            /\ LET zip == ZipOf(archives[j])
                   fs  == { e \in zip.entries : e.kind = "file" }
                   ds  == { e \in zip.entries : e.kind = "dir" }
                   above == UNION { { SubSeq(q, 1, n) : n \in 1..(Len(q) - 1) } :
                                    q \in archives[j].files }
               IN  /\ zip.kind = "file" /\ zip.complete
                   /\ zip.entries = fs \cup ds
                   /\ PathsOf(fs) = { q \in archives[j].files : Staged(archives[j], q) }
                   /\ PathsOf(ds) = { d \in above : Staged(archives[j], d) }
                   /\ archives[j].badDirs = {} =>
                         /\ Cardinality(fs) = Cardinality(archives[j].files)
                         /\ Cardinality(ds) = Cardinality(above)
            /\ StagingGone(archives[j])

C8_Witness ==
    /\ Len(archives) = 1
    /\ archives[1].ok
    /\ archives[1].badDirs = {}
    /\ archives[1].files = ArchivePaths
    /\ Cardinality(ZipOf(archives[1]).entries) = 6
    /\ StagingGone(archives[1])

----------------------------------------------------------------------------
(* Properties of the retention pruner *)

\* an entry the claim names for deletion: a regular file with an archive
\* name whose timestamp is a date-time strictly before the deadline
Expired(e, p) ==
    /\ e.kind = "file"
    /\ e.name.fmt = "archive"
    /\ e.name.ts[2] \in 1..12
    /\ e.name.ts[3] \in 1..DaysInMonth(e.name.ts[1], e.name.ts[2])
    /\ e.name.ts[4] \in 0..23
    /\ LET written == At(e.name.ts[1], e.name.ts[2], e.name.ts[3],
                         e.name.ts[4] \div HoursPerTick) - tz
       IN  written < p.at - Days(30 * keep_months)

\* C5: with keep_months >= 1 the pruning step removes the top-level regular
\* files named like an archive whose timestamp parses and is strictly before
\* now - keep_months * 30 days, and nothing else: every other entry stays, and
\* each of those files is gone unless its removal failed; with
\* keep_months = 0 nothing is removed.
C5_PrunesExpiredArchivesOnly ==
    \A i \in 1..Len(prunes) :
        LET p == prunes[i]
        IN  /\ p.kept \subseteq { e \in p.before : Expired(e, p) }
            /\ dest = IF keep_months >= 1
                      THEN p.before \ ({ e \in p.before : Expired(e, p) } \ p.kept)
                      ELSE p.before

C5_Witness ==
    /\ prunes # << >>
    /\ keep_months = 1
    /\ prunes[1].before = PruneUniverse(tz) \cup {CacheDir} \cup (dest \ prunes[1].before)
    /\ prunes[1].kept = {}
    /\ prunes[1].before \ dest =
          { OldArchive(to_local(Deadline(RunNow, 1), tz) - 1),
            OldArchive(to_local(Deadline(RunNow, 2), tz) - 1) }

----------------------------------------------------------------------------
(* Properties of the fatal errors *)

\* no month was scanned, no archive created, no pruning pass made, and the
\* cache file is as the run found it
NoBackupWork ==
    /\ scans = << >>
    /\ archives = << >>
    /\ prunes = << >>
    /\ cache_writes = << >>
    /\ cache_file = cache_at_start
    /\ \A e \in dest : e.name.fmt # "archive" \/ e \in RunDest

\* main is past the reading of the cache file
CacheWasRead == pc \in {"scan", "archive", "prune", "update"} \/ scans # << >>

----------------------------------------------------------------------------
(* Properties of runs that follow one another *)

\* a create_archive call that failed and left no complete archive
NeverArchived(a) == ~a.ok /\ a.outcome # "rmdir"

\* the files that qualified for the month in the run with history r and
\* were not archived by it: the files handed to a create_archive call that
\* failed, and the files a scan that failed would have selected
LeftOver(r, month) ==
    UNION ( { r.archives[j].files : j \in { k \in 1..Len(r.archives) :
                  r.archives[k].month = month /\ NeverArchived(r.archives[k]) } }
            \cup
            { find_files_to_backup(source, r.scans[i].cutoff, month, tz, {}, {}).files :
                  i \in { k \in 1..Len(r.scans) :
                              r.scans[k].month = month /\ ~r.scans[k].ok } } )

\* C12: when the run before this one wrote the cache file (an archive of
\* another month succeeded), every file that qualified in it for a month whose
\* scan or archive step failed, and that was not archived, is selected again
\* by each scan of that month in this run that reads the whole source tree
\* without error.
C12_FailedMonthRetried ==
    earlier # << >> =>
        LET before == earlier[Len(earlier)]
        IN  before.cache_writes = << "ok" >> =>
                \A i \in 1..Len(scans) :
                    (scans[i].ok /\ scans[i].badDirs = {}) =>
                        LeftOver(before, scans[i].month) \subseteq scans[i].files

====
